---------------------------- MODULE Spec2Model ----------------------------
(***************************************************************************)
(* A model of the netlink codec of neli: the field-by-field serialization  *)
(* and deserialization drivers (src/src/macros.rs), the packet header      *)
(* Nlmsghdr (src/src/nl.rs), the buffer-carrying errors (src/src/err.rs)   *)
(* and the enumerated constants generated by impl_var! / impl_trait!       *)
(* (src/src/consts/macros.rs, src/src/consts/netfilter.rs).                *)
(*                                                                         *)
(* A byte buffer (BytesMut / Bytes) is a sequence of bytes 0..255.  A type *)
(* is a sequence of names: <<"u8">>, <<"NlEmpty">>, <<"Nlmsg">>,           *)
(* <<"Vec<u8>">> (a type without a static size), <<"Nlmsghdr">> \o P for   *)
(* the header Nlmsghdr<Nlmsg, P>, and <<"Nlmsgerr">> for Nlmsgerr<Nlmsg>.  *)
(***************************************************************************)
EXTENDS Integers, Sequences, FiniteSets, TLC

VARIABLES
    endian,   \* byte order of the build target: "LE" or "BE" (NativeEndian)
    pc,       \* position of the caller / of the running driver
    P,        \* payload type parameter of the header in play
    args,     \* the arguments the caller passed to Nlmsghdr::new
    nl,       \* the header value built by Nlmsghdr::new
    mem,      \* the buffer the caller handed to serialize / deserialize
    ser,      \* serialize!: the driver's locals and its result
    de,       \* deserialize!: the driver's locals and its result
    cst,      \* the last conversion of an enumerated constant
    cv        \* a codec value serialized / deserialized on its own

vars == <<endian, pc, P, args, nl, mem, ser, de, cst, cv>>

---------------------------------------------------------------------------
(* Bounds of the model.                                                    *)

\* buffers up to this many bytes longer than needed are tried
MaxExtra == 1
\* buffers down to this many bytes shorter than size() are tried
MaxShort == 1
\* the 16-bit wire integers 0..MaxWire16 are converted, besides the bound
\* values of the 16-bit enums, their neighbours and the largest one
MaxWire16 == 300

---------------------------------------------------------------------------
(* Option<T>, bytes and native-endian integers.                            *)

None == [some |-> FALSE, v |-> 0]
Some(x) == [some |-> TRUE, v |-> x]
unwrap_or(o, d) == IF o.some THEN o.v ELSE d

NoBuf == [some |-> FALSE, v |-> <<>>]
SomeBuf(b) == [some |-> TRUE, v |-> b]

\* 256^k; the integers of the model stay below 2^31, so every u32 it
\* handles has its top bit clear
Pow256(k) == CASE k = 0 -> 1 [] k = 1 -> 256 [] k = 2 -> 65536
               [] k = 3 -> 16777216

Zeros(n) == [i \in 1..n |-> 0]
Fill(n, b) == [i \in 1..n |-> b]

\* byteorder::NativeEndian::write_uN: the w bytes of n in the target's order
NativeEndianWrite(w, n) ==
    [i \in 1..w |->
        IF endian = "LE" THEN (n \div Pow256(i - 1)) % 256
                         ELSE (n \div Pow256(w - i)) % 256]

RECURSIVE BytesValue(_, _)
\* the value of bytes b[1..k] read least significant byte first
BytesValue(b, k) ==
    IF k = 0 THEN 0 ELSE b[k] * Pow256(k - 1) + BytesValue(b, k - 1)

Reverse(b) == [i \in 1..Len(b) |-> b[Len(b) + 1 - i]]

\* byteorder::NativeEndian::read_uN
NativeEndianRead(b) ==
    IF endian = "LE" THEN BytesValue(b, Len(b))
                     ELSE BytesValue(Reverse(b), Len(b))

\* byteorder::NativeEndian::read_i32: the top byte carries the sign
NativeEndianReadI32(b) ==
    LET le == IF endian = "LE" THEN b ELSE Reverse(b)
        top == IF le[4] >= 128 THEN le[4] - 256 ELSE le[4]
    IN  top * Pow256(3) + BytesValue(le, 3)

\* BytesMut::split_off(at): self keeps [0, at), the result holds [at, len)
split_off_head(b, at) == SubSeq(b, 1, at)
split_off_tail(b, at) == SubSeq(b, at + 1, Len(b))
\* BytesMut::split_to(at): self keeps [at, len), the result holds [0, at)
split_to_head(b, at) == SubSeq(b, 1, at)
split_to_rest(b, at) == SubSeq(b, at + 1, Len(b))
\* BytesMut::unsplit(other): other is appended to self
unsplit(b, other) == b \o other

\* consts::alignto: round up to the alignment unit
NLA_ALIGNTO == 4
alignto(len) == ((len + NLA_ALIGNTO - 1) \div NLA_ALIGNTO) * NLA_ALIGNTO

---------------------------------------------------------------------------
(* Enumerated constants: impl_var! and impl_trait!.                        *)
(* A value of a generated enum is [var, raw]: a named variant (raw = 0) or *)
(* UnrecognizedVariant(raw).                                               *)

Variant(name) == [var |-> name, raw |-> 0]
UnrecognizedVariant(i) == [var |-> "UnrecognizedVariant", raw |-> i]

V(name, val) == [var |-> name, val |-> val]

NfLogAttr == << V("PacketHdr", 1), V("Mark", 2), V("Timestamp", 3),
                V("IfindexIndev", 4), V("IfindexOutdev", 5),
                V("IfindexPhyindev", 6), V("IfindexPhyoutdev", 7),
                V("Hwaddr", 8), V("Payload", 9), V("Prefix", 10),
                V("Uid", 11), V("Seq", 12), V("SeqGlobal", 13),
                V("Gid", 14), V("Hwtype", 15), V("Hwheader", 16),
                V("Hwlen", 17), V("Ct", 18), V("CtInfo", 19) >>

NfLogCfg == << V("Cmd", 1), V("Mode", 2), V("NlBufSize", 3),
               V("Timeout", 4), V("QThresh", 5), V("Flags", 6) >>

NetfilterMsg == << V("LogPacket", 1024), V("LogConfig", 1025) >>

LogCmd == << V("Bind", 1), V("Unbind", 2), V("PfBind", 3),
             V("PfUnbind", 4) >>

LogCopyMode == << V("None", 0), V("Meta", 1), V("Packet", 2) >>

\* consts::nl::Nlmsg, the type tag of the header tests (Noop is 1)
Nlmsg == << V("Noop", 1), V("Error", 2), V("Done", 3), V("Overrun", 4) >>

EnumNames == {"NfLogAttr", "NfLogCfg", "NetfilterMsg", "LogCmd",
              "LogCopyMode", "Nlmsg"}

\* the variant table of a generated enum
EnumTable(name) ==
    CASE name = "NfLogAttr" -> NfLogAttr
      [] name = "NfLogCfg" -> NfLogCfg
      [] name = "NetfilterMsg" -> NetfilterMsg
      [] name = "LogCmd" -> LogCmd
      [] name = "LogCopyMode" -> LogCopyMode
      [] name = "Nlmsg" -> Nlmsg

\* the byte width of the enum's wire integer $ty
EnumWidth(name) ==
    IF name \in {"LogCmd", "LogCopyMode"} THEN 1 ELSE 2

SetMin(S) == CHOOSE x \in S : \A y \in S : x <= y

\* enum_from with a catch-all arm that drops the raw value
enum_from_drops_raw(name, v) ==
    LET tbl == EnumTable(name)
        hits == {i \in 1..Len(tbl) : tbl[i].val = v}
    IN  IF hits = {} THEN UnrecognizedVariant(0)
        ELSE Variant(tbl[SetMin(hits)].var)

\* impl From<$ty> for $name: the first arm, in declaration order, whose
\* bound value equals v; the catch-all arm keeps v
enum_from(name, v) ==
    LET tbl == EnumTable(name)
        hits == {i \in 1..Len(tbl) : tbl[i].val = v}
    IN  IF hits = {} THEN UnrecognizedVariant(v)
        ELSE Variant(tbl[SetMin(hits)].var)

\* enum_into giving a named variant's position in the declaration instead
\* of its bound value
enum_into_position(name, e) ==
    LET tbl == EnumTable(name)
    IN  IF e.var = "UnrecognizedVariant" THEN e.raw
        ELSE CHOOSE i \in 1..Len(tbl) : tbl[i].var = e.var

\* impl From<$name> for $ty
enum_into(name, e) ==
    LET tbl == EnumTable(name)
    IN  IF e.var = "UnrecognizedVariant" THEN e.raw
        ELSE tbl[CHOOSE i \in 1..Len(tbl) : tbl[i].var = e.var].val

\* $name::is_unrecognized
is_unrecognized(e) == e.var = "UnrecognizedVariant"

\* A wrapper value is [case, inner, raw]: the case of one candidate enum
\* holding its variant, or UnrecognizedConst(raw).
WrapperCase(cand, e) == [case |-> cand, inner |-> e, raw |-> 0]
UnrecognizedConst(v) ==
    [case |-> "UnrecognizedConst", inner |-> UnrecognizedVariant(0), raw |-> v]

\* impl_trait!(LogCfgCmd, u8, LogCfgCmdWrapper, LogCmd)
LogCfgCmdWrapper == << "LogCmd" >>
\* impl_trait! instantiated over two enums of one wire space whose bound
\* values overlap (1 and 2 are bound by both, 0 only by the second)
LogCmdCopyModeWrapper == << "LogCmd", "LogCopyMode" >>

WrapperNames == {"LogCfgCmdWrapper", "LogCmdCopyModeWrapper"}

WrapperCands(w) ==
    IF w = "LogCfgCmdWrapper" THEN LogCfgCmdWrapper ELSE LogCmdCopyModeWrapper

RECURSIVE wrapper_from_at_last(_, _, _)
\* wrapper_from_at without the early return: a later candidate that
\* recognizes v replaces an earlier one
wrapper_from_at_last(cands, k, v) ==
    IF k > Len(cands) THEN UnrecognizedConst(v)
    ELSE LET var == enum_from(cands[k], v)
             later == wrapper_from_at_last(cands, k + 1, v)
         IN  IF later.case # "UnrecognizedConst" THEN later
             ELSE IF ~is_unrecognized(var) THEN WrapperCase(cands[k], var)
             ELSE later

RECURSIVE wrapper_from_at(_, _, _)
\* impl From<$to_from_ty> for $wrapper_type, from candidate k on
wrapper_from_at(cands, k, v) ==
    IF k > Len(cands) THEN UnrecognizedConst(v)
    ELSE LET var == enum_from(cands[k], v)
         IN  IF ~is_unrecognized(var) THEN WrapperCase(cands[k], var)
             ELSE wrapper_from_at(cands, k + 1, v)

wrapper_from(w, v) == wrapper_from_at(WrapperCands(w), 1, v)

\* impl Into<$to_from_ty> for $wrapper_type
wrapper_into(w, x) ==
    IF x.case = "UnrecognizedConst" THEN x.raw
    ELSE enum_into(x.case, x.inner)

---------------------------------------------------------------------------
(* The codec contract (trait Nl) for the types of the model.               *)

IntTypes == {"u8", "u16", "u32", "i32"}

\* std::mem::size_of of an integer type
IntWidth(name) ==
    CASE name = "u8" -> 1 [] name = "u16" -> 2 [] name = "u32" -> 4
      [] name = "i32" -> 4

\* Result<BytesMut, SerError>; a driver arm's (buffer, pos) on success
SerOk(buf, pos) == [ok |-> TRUE, kind |-> "Ok", msg |-> "", buf |-> buf, pos |-> pos]
SerErr(kind, msg, buf) ==
    [ok |-> FALSE, kind |-> kind, msg |-> msg, buf |-> buf, pos |-> 0]

\* Result<V, DeError>; a driver arm's (value, pos) on success
DeOk(val, pos) == [ok |-> TRUE, kind |-> "Ok", msg |-> "", val |-> val, pos |-> pos]
DeErr(kind, msg) == [ok |-> FALSE, kind |-> kind, msg |-> msg, val |-> 0, pos |-> 0]

NoStaticSize == "Type has no static size associated with it"

\* the fields of Nlmsghdr<Nlmsg, P> in declaration (wire) order
NlmsghdrFields == 6
FieldTy(ty, i) ==
    CASE i = 1 -> << "u32" >>
      [] i = 2 -> << "Nlmsg" >>
      [] i = 3 -> << "NlmFFlags" >>
      [] i = 4 -> << "u32" >>
      [] i = 5 -> << "u32" >>
      [] i = 6 -> Tail(ty)

FieldVal(v, i) ==
    CASE i = 1 -> v.nl_len
      [] i = 2 -> v.nl_type
      [] i = 3 -> v.nl_flags
      [] i = 4 -> v.nl_seq
      [] i = 5 -> v.nl_pid
      [] i = 6 -> v.nl_payload

SetField(v, i, x) ==
    CASE i = 1 -> [v EXCEPT !.nl_len = x]
      [] i = 2 -> [v EXCEPT !.nl_type = x]
      [] i = 3 -> [v EXCEPT !.nl_flags = x]
      [] i = 4 -> [v EXCEPT !.nl_seq = x]
      [] i = 5 -> [v EXCEPT !.nl_pid = x]
      [] i = 6 -> [v EXCEPT !.nl_payload = x]

\* the type of Nlmsgerr's nlmsg field: Nlmsghdr<T, NlEmpty>
NlmsgerrHdr == << "Nlmsghdr", "NlEmpty" >>

RECURSIVE size(_, _)
\* Nl::size: the exact unpadded wire length of a value
size(ty, v) ==
    CASE ty[1] \in IntTypes -> IntWidth(ty[1])
      [] ty[1] = "NlEmpty" -> 0
      [] ty[1] \in EnumNames -> EnumWidth(ty[1])
      [] ty[1] = "NlmFFlags" -> 2
      [] ty[1] = "Nlmsghdr" ->
            size(FieldTy(ty, 1), v.nl_len) + size(FieldTy(ty, 2), v.nl_type)
            + size(FieldTy(ty, 3), v.nl_flags) + size(FieldTy(ty, 4), v.nl_seq)
            + size(FieldTy(ty, 5), v.nl_pid) + size(FieldTy(ty, 6), v.nl_payload)
      [] ty[1] = "Vec<u8>" -> Len(v)
      [] ty[1] = "Nlmsgerr" ->
            size(<< "i32" >>, v.error) + size(NlmsgerrHdr, v.nlmsg)

\* Nl::asize: size() rounded up to the alignment unit
asize(ty, v) == alignto(size(ty, v))

and_then_add(o, sub) == IF o.some /\ sub.some THEN Some(o.v + sub.v) ELSE None

RECURSIVE type_size(_)
\* Nl::type_size: the static size of a type, when it has one
type_size(ty) ==
    CASE ty[1] \in IntTypes -> Some(IntWidth(ty[1]))
      [] ty[1] = "NlEmpty" -> Some(0)
      [] ty[1] \in EnumNames -> Some(EnumWidth(ty[1]))
      [] ty[1] = "NlmFFlags" -> Some(2)
      [] ty[1] = "Nlmsghdr" ->
            and_then_add(and_then_add(and_then_add(and_then_add(and_then_add(
                type_size(FieldTy(ty, 1)), type_size(FieldTy(ty, 2))),
                type_size(FieldTy(ty, 3))), type_size(FieldTy(ty, 4))),
                type_size(FieldTy(ty, 5))), type_size(FieldTy(ty, 6)))
      [] ty[1] = "Vec<u8>" -> None
      [] ty[1] = "Nlmsgerr" ->
            and_then_add(type_size(NlmsgerrHdr), type_size(<< "i32" >>))

\* put_int!: an integer of w bytes written into a region of exactly w bytes
put_int(w, to_ser, bytes) ==
    IF Len(bytes) < w THEN SerErr("UnexpectedEOB", "", bytes)
    ELSE IF Len(bytes) > w THEN SerErr("BufferNotFilled", "", bytes)
    ELSE SerOk(NativeEndianWrite(w, to_ser), 0)

\* get_int! without its check for bytes left over
get_int_prefix(w, bytes) ==
    IF Len(bytes) < w THEN DeErr("UnexpectedEOB", "")
    ELSE DeOk(NativeEndianRead(SubSeq(bytes, 1, w)), 0)

\* get_int!: an integer of w bytes read from a slice of exactly w bytes
get_int(w, bytes) ==
    IF Len(bytes) < w THEN DeErr("UnexpectedEOB", "")
    ELSE IF Len(bytes) > w THEN DeErr("BufferNotParsed", "")
    ELSE DeOk(NativeEndianRead(bytes), 0)

\* get_int! with read_i32
get_i32(bytes) ==
    IF Len(bytes) < 4 THEN DeErr("UnexpectedEOB", "")
    ELSE IF Len(bytes) > 4 THEN DeErr("BufferNotParsed", "")
    ELSE DeOk(NativeEndianReadI32(bytes), 0)

\* Nl::pad: the padding of a value, asize() - size() zero bytes, written at
\* the start of the region it is given
pad(ty, v, m) ==
    LET padding_len == asize(ty, v) - size(ty, v)
    IN  IF Len(m) < padding_len THEN SerErr("IOError", "failed to write whole buffer", m)
        ELSE SerOk(Zeros(padding_len) \o SubSeq(m, padding_len + 1, Len(m)), 0)

\* reconstruct that forgets the piece split off after the failing region
reconstruct_drops_end(e, start, end) ==
    CASE start.some -> SerErr(e.kind, e.msg, unsplit(start.v, e.buf))
      [] OTHER -> e

\* SerError::reconstruct: the pieces split off at this level are joined
\* around the buffer the error carries; the variant and message are kept
reconstruct(e, start, end) ==
    CASE start.some /\ end.some ->
            SerErr(e.kind, e.msg, unsplit(unsplit(start.v, e.buf), end.v))
      [] start.some /\ ~end.some ->
            SerErr(e.kind, e.msg, unsplit(start.v, e.buf))
      [] ~start.some /\ end.some ->
            SerErr(e.kind, e.msg, unsplit(e.buf, end.v))
      [] OTHER -> e

RECURSIVE serialize(_, _, _), drive_serialize(_, _, _, _), serialize_from(_, _, _, _, _)

\* the positional arm returning the field's size for the new cursor, as the
\* arm without a cursor does
drive_serialize_returns_size(to_ser_ty, to_ser, buffer, pos) ==
    LET sz == size(to_ser_ty, to_ser)
    IN  IF pos + sz > Len(buffer) THEN SerErr("UnexpectedEOB", "", buffer)
        ELSE LET start == split_off_head(buffer, pos)
                 end0 == split_off_tail(buffer, pos)
                 subbuffer == split_to_head(end0, sz)
                 end == split_to_rest(end0, sz)
                 r == serialize(to_ser_ty, to_ser, subbuffer)
             IN  IF r.ok THEN SerOk(unsplit(unsplit(start, r.buf), end), sz)
                 ELSE reconstruct(r, SomeBuf(start), SomeBuf(end))

\* drive_serialize!, positional arm: one field written at the cursor
drive_serialize(to_ser_ty, to_ser, buffer, pos) ==
    LET sz == size(to_ser_ty, to_ser)
    IN  IF pos + sz > Len(buffer) THEN SerErr("UnexpectedEOB", "", buffer)
        ELSE LET start == split_off_head(buffer, pos)
                 end0 == split_off_tail(buffer, pos)
                 subbuffer == split_to_head(end0, sz)
                 end == split_to_rest(end0, sz)
                 r == serialize(to_ser_ty, to_ser, subbuffer)
             IN  IF r.ok THEN SerOk(unsplit(unsplit(start, r.buf), end), pos + sz)
                 ELSE reconstruct(r, SomeBuf(start), SomeBuf(end))

\* the PAD arm without its check that the padding fits
drive_serialize_PAD_unchecked(self_ty, self, buffer, pos) ==
    LET sz == asize(self_ty, self) - size(self_ty, self)
        kept == split_off_head(buffer, sz)
        subbuffer == split_off_tail(buffer, sz)
        r == pad(self_ty, self, subbuffer)
    IN  IF r.ok THEN SerOk(unsplit(kept, r.buf), pos + sz)
        ELSE reconstruct(r, SomeBuf(kept), NoBuf)

\* drive_serialize!, PAD arm: the padding of the outer value
drive_serialize_PAD(self_ty, self, buffer, pos) ==
    LET sz == asize(self_ty, self) - size(self_ty, self)
    IN  IF pos + sz > Len(buffer) THEN SerErr("UnexpectedEOB", "", buffer)
        ELSE LET kept == split_off_head(buffer, sz)
                 subbuffer == split_off_tail(buffer, sz)
                 r == pad(self_ty, self, subbuffer)
             IN  IF r.ok THEN SerOk(unsplit(kept, r.buf), pos + sz)
                 ELSE reconstruct(r, SomeBuf(kept), NoBuf)

\* drive_serialize!, END arm: the cursor must be at the end of the buffer
drive_serialize_END(buffer, pos) ==
    IF Len(buffer) # pos THEN SerErr("BufferNotFilled", "", buffer)
    ELSE SerOk(buffer, pos)

\* serialize! (PAD arm) over the fields of a header, from field i on
serialize_from(ty, v, buffer, pos, i) ==
    IF i <= NlmsghdrFields
    THEN LET r == drive_serialize(FieldTy(ty, i), FieldVal(v, i), buffer, pos)
         IN  IF r.ok THEN serialize_from(ty, v, r.buf, r.pos, i + 1) ELSE r
    ELSE LET r == drive_serialize_PAD(ty, v, buffer, pos)
         IN  IF r.ok THEN drive_serialize_END(r.buf, r.pos) ELSE r

\* Nl::serialize of each type: an integer by put_int!, NlEmpty returning
\* its region untouched, a generated enum converted to its wire integer
\* and serialized as that, the flags as their u16 bitmask, the header by
\* serialize!, a byte vector copied into a region of its length
serialize(ty, v, m) ==
    CASE ty[1] \in IntTypes -> put_int(IntWidth(ty[1]), v, m)
      [] ty[1] = "NlEmpty" -> SerOk(m, 0)
      [] ty[1] \in EnumNames -> put_int(EnumWidth(ty[1]), enum_into(ty[1], v), m)
      [] ty[1] = "NlmFFlags" -> put_int(2, v, m)
      [] ty[1] = "Nlmsghdr" -> serialize_from(ty, v, m, 0, 1)
      [] ty[1] = "Vec<u8>" ->
            IF Len(m) < Len(v) THEN SerErr("UnexpectedEOB", "", m)
            ELSE IF Len(m) > Len(v) THEN SerErr("BufferNotFilled", "", m)
            ELSE SerOk(v, 0)

\* Nlmsghdr::serialize
Nlmsghdr_serialize(ty, v, m) == serialize(ty, v, m)

---------------------------------------------------------------------------
(* Deserialization.                                                        *)

NlEmpty == << >>

RECURSIVE DefaultVal(_)
\* the value a not yet parsed field holds in the driver's locals
DefaultVal(ty) ==
    CASE ty[1] \in IntTypes -> 0
      [] ty[1] = "NlEmpty" -> NlEmpty
      [] ty[1] \in EnumNames -> UnrecognizedVariant(0)
      [] ty[1] = "NlmFFlags" -> 0
      [] ty[1] = "Nlmsghdr" ->
            [nl_len |-> 0, nl_type |-> UnrecognizedVariant(0), nl_flags |-> 0,
             nl_seq |-> 0, nl_pid |-> 0, nl_payload |-> DefaultVal(Tail(ty))]
      [] ty[1] = "Vec<u8>" -> << >>

\* deserialize_type_size! taking a missing static size for zero
deserialize_type_size_or_zero(de_ty) ==
    DeOk(unwrap_or(type_size(de_ty), 0), 0)

\* deserialize_type_size!($de_type => type_size)
deserialize_type_size(de_ty) ==
    LET s == type_size(de_ty)
    IN  IF s.some THEN DeOk(s.v, 0) ELSE DeErr("Msg", NoStaticSize)

RECURSIVE deserialize(_, _), drive_deserialize(_, _, _), deserialize_from(_, _, _, _, _)

\* the positional arm slicing (pos, size) instead of (pos, pos + size)
drive_deserialize_slice_to_size(de_ty, buffer, pos) ==
    LET s == deserialize_type_size(de_ty)
    IN  IF ~s.ok THEN s
        ELSE IF pos + s.val > Len(buffer) THEN DeErr("UnexpectedEOB", "")
        ELSE LET subbuffer == SubSeq(buffer, pos + 1, s.val)
                 t == deserialize(de_ty, subbuffer)
             IN  IF t.ok THEN DeOk(t.val, pos + s.val) ELSE t

\* drive_deserialize!, positional arm, its size argument being
\* deserialize_type_size!(de_ty => type_size)
drive_deserialize(de_ty, buffer, pos) ==
    LET s == deserialize_type_size(de_ty)
    IN  IF ~s.ok THEN s
        ELSE IF pos + s.val > Len(buffer) THEN DeErr("UnexpectedEOB", "")
        ELSE LET subbuffer == SubSeq(buffer, pos + 1, pos + s.val)
                 t == deserialize(de_ty, subbuffer)
             IN  IF t.ok THEN DeOk(t.val, pos + s.val) ELSE t

\* drive_deserialize!, STRIP arm: sz bytes of padding are skipped
drive_deserialize_STRIP(buffer, pos, sz) ==
    IF pos + sz > Len(buffer) THEN DeErr("UnexpectedEOB", "")
    ELSE DeOk(0, pos + sz)

\* drive_deserialize!, END arm: the cursor must be at the end of the buffer
drive_deserialize_END(buffer, pos) ==
    IF Len(buffer) # pos THEN DeErr("BufferNotParsed", "") ELSE DeOk(0, pos)

\* the padding Nlmsghdr::deserialize strips: alignto(nl_len) - nl_len
strip_size(acc) == alignto(acc.nl_len) - acc.nl_len

\* deserialize! (STRIP arm) over the fields of a header, from field i on
deserialize_from(ty, buffer, pos, i, acc) ==
    IF i <= NlmsghdrFields
    THEN LET r == drive_deserialize(FieldTy(ty, i), buffer, pos)
         IN  IF r.ok
             THEN deserialize_from(ty, buffer, r.pos, i + 1, SetField(acc, i, r.val))
             ELSE r
    ELSE LET r == drive_deserialize_STRIP(buffer, pos, strip_size(acc))
         IN  IF ~r.ok THEN r
             ELSE LET e == drive_deserialize_END(buffer, r.pos)
                  IN  IF e.ok THEN DeOk(acc, e.pos) ELSE e

\* Nl::deserialize of each type: an integer by get_int!, NlEmpty from any
\* slice, a generated enum from its wire integer, the header by
\* deserialize!, a byte vector taking the whole slice
deserialize(ty, m) ==
    CASE ty[1] \in IntTypes ->
            IF ty[1] = "i32" THEN get_i32(m) ELSE get_int(IntWidth(ty[1]), m)
      [] ty[1] = "NlEmpty" -> DeOk(NlEmpty, 0)
      [] ty[1] \in EnumNames ->
            LET v == get_int(EnumWidth(ty[1]), m)
            IN  IF v.ok THEN DeOk(enum_from(ty[1], v.val), 0) ELSE v
      [] ty[1] = "NlmFFlags" -> get_int(2, m)
      [] ty[1] = "Nlmsghdr" -> deserialize_from(ty, m, 0, 1, DefaultVal(ty))
      [] ty[1] = "Vec<u8>" -> DeOk(m, 0)

\* Nlmsghdr::deserialize
Nlmsghdr_deserialize(ty, m) == deserialize(ty, m)

\* the fields of Nlmsgerr<T> in declaration (wire) order
NlmsgerrFields == 2
NlmsgerrFieldTy(i) == IF i = 1 THEN << "i32" >> ELSE NlmsgerrHdr
NlmsgerrFieldVal(v, i) == IF i = 1 THEN v.error ELSE v.nlmsg

RECURSIVE Nlmsgerr_serialize_from(_, _, _, _)
\* serialize!: the (buffer, pos) a field's arm yields is bound for the next
\* arm; an arm's error returns from serialize
Nlmsgerr_serialize_next(r, v, i) ==
    IF r.ok THEN Nlmsgerr_serialize_from(v, r.buf, r.pos, i + 1) ELSE r

\* serialize!: the (buffer, pos) the PAD arm yields is handed to the END arm
Nlmsgerr_serialize_last(r) ==
    IF r.ok THEN drive_serialize_END(r.buf, r.pos) ELSE r

\* serialize! (PAD arm) over the fields of an error packet, from field i on
Nlmsgerr_serialize_from(v, buffer, pos, i) ==
    IF i <= NlmsgerrFields
    THEN Nlmsgerr_serialize_next(
             drive_serialize(NlmsgerrFieldTy(i), NlmsgerrFieldVal(v, i), buffer, pos),
             v, i)
    ELSE Nlmsgerr_serialize_last(drive_serialize_PAD(<< "Nlmsgerr" >>, v, buffer, pos))

\* Nlmsgerr::serialize: serialize! { PAD self; mem; self.error, size;
\* self.nlmsg, size }
Nlmsgerr_serialize(v, m) == Nlmsgerr_serialize_from(v, m, 0, 1)

\* drive_deserialize!, positional arm, with the size expression sz
drive_deserialize_sized(de_ty, buffer, pos, sz) ==
    IF pos + sz > Len(buffer) THEN DeErr("UnexpectedEOB", "")
    ELSE LET subbuffer == SubSeq(buffer, pos + 1, pos + sz)
             t == deserialize(de_ty, subbuffer)
         IN  IF t.ok THEN DeOk(t.val, pos + sz) ELSE t

\* the size expressions of Nlmsgerr::deserialize: the static size of c_int
\* for error, and mem.len() minus that size for nlmsg (evaluated only when
\* error was parsed, that is with mem.len() >= 4)
NlmsgerrFieldSize(m, i) ==
    IF i = 1 THEN unwrap_or(type_size(<< "i32" >>), 0)
    ELSE Len(m) - unwrap_or(type_size(<< "i32" >>), 0)

NlmsgerrSetField(acc, i, x) ==
    IF i = 1 THEN [acc EXCEPT !.error = x] ELSE [acc EXCEPT !.nlmsg = x]

RECURSIVE Nlmsgerr_deserialize_from(_, _, _, _)
\* deserialize!: the (value, pos) a field's arm yields is bound for the next
\* arm; an arm's error returns from deserialize
Nlmsgerr_deserialize_next(r, m, i, acc) ==
    IF r.ok
    THEN Nlmsgerr_deserialize_from(m, r.pos, i + 1, NlmsgerrSetField(acc, i, r.val))
    ELSE r

\* deserialize! (STRIP arm) over the fields of an error packet, from field
\* i on; the struct size handed to STRIP is mem.len()
Nlmsgerr_deserialize_from(m, pos, i, acc) ==
    IF i <= NlmsgerrFields
    THEN Nlmsgerr_deserialize_next(
             drive_deserialize_sized(NlmsgerrFieldTy(i), m, pos, NlmsgerrFieldSize(m, i)),
             m, i, acc)
    ELSE LET r == drive_deserialize_STRIP(m, pos, Len(m))
         IN  IF ~r.ok THEN r
             ELSE LET e == drive_deserialize_END(m, r.pos)
                  IN  IF e.ok THEN DeOk(acc, e.pos) ELSE e

\* Nlmsgerr::deserialize: deserialize! { STRIP Self; mem; Nlmsgerr { error:
\* c_int => deserialize_type_size!(c_int => type_size), nlmsg:
\* Nlmsghdr<T, NlEmpty> => mem.len() - c_int::type_size() } => mem.len() }
Nlmsgerr_deserialize(m) ==
    Nlmsgerr_deserialize_from(m, 0, 1,
        [error |-> 0, nlmsg |-> DefaultVal(NlmsgerrHdr)])

\* usize as u32: it truncates from 2^32 on, and a size of the model is far
\* below that
as_u32(n) == n

\* Nlmsghdr::new taking the aligned size for the declared length
Nlmsghdr_new_asize(ty, nl_len, nl_type, nl_flags, nl_seq, nl_pid, nl_payload) ==
    LET nl0 == [nl_type |-> nl_type, nl_flags |-> nl_flags,
                nl_seq |-> unwrap_or(nl_seq, 0), nl_pid |-> unwrap_or(nl_pid, 0),
                nl_payload |-> nl_payload, nl_len |-> 0]
    IN  [nl0 EXCEPT !.nl_len = unwrap_or(nl_len, as_u32(asize(ty, nl0)))]

\* Nlmsghdr::new
Nlmsghdr_new(ty, nl_len, nl_type, nl_flags, nl_seq, nl_pid, nl_payload) ==
    LET nl0 == [nl_type |-> nl_type, nl_flags |-> nl_flags,
                nl_seq |-> unwrap_or(nl_seq, 0), nl_pid |-> unwrap_or(nl_pid, 0),
                nl_payload |-> nl_payload, nl_len |-> 0]
    IN  [nl0 EXCEPT !.nl_len = unwrap_or(nl_len, as_u32(size(ty, nl0)))]

Hdr(p) == << "Nlmsghdr" >> \o p

---------------------------------------------------------------------------
(* The inputs the callers of the model draw from.                          *)

PayloadTypes == { << "NlEmpty" >>, << "u8" >>, << "u16" >>, << "u32" >>,
                  Hdr(<< "NlEmpty" >>), Hdr(<< "u8" >>) }

PayloadValues(p) ==
    CASE p = << "NlEmpty" >> -> { NlEmpty }
      [] p = << "u8" >> -> { 171 }
      [] p = << "u16" >> -> { 4660 }
      [] p = << "u32" >> -> { 2125315823 }
      [] p = Hdr(<< "NlEmpty" >>) ->
            { Nlmsghdr_new(p, None, Variant("Error"), 4, Some(7), None, NlEmpty) }
      [] p = Hdr(<< "u8" >>) ->
            { Nlmsghdr_new(p, None, Variant("Done"), 0, None, None, 171) }

LenArgs == { None, Some(12), Some(17), Some(20) }
TypeArgs == { Variant("Noop"), UnrecognizedVariant(258) }
FlagArgs == { 0, 4, 769 }
SeqArgs == { None, Some(16909060) }
PidArgs == { None, Some(168496141) }
FillBytes == { 0, 255 }
ShortLens == { 0, 5 }

\* the lengths of the buffers a caller hands to serialize for value v
BufLens(ty, v) ==
    ShortLens \cup
    { n \in 0..(asize(ty, v) + MaxExtra) : n >= size(ty, v) - MaxShort }

\* bytes received from the wire: the declared length, tag, flags, ids
DeclLens == { 0, 12, 15, 16, 17, 18, 20, 24 }
WireTags == { 1, 258 }
WireFlags == { 0, 4 }
WireIds == { 0, 16909060 }

WireLens(p) ==
    LET fixed == 16 + unwrap_or(type_size(p), 0)
    IN  ShortLens \cup
        { n \in 0..(fixed + NLA_ALIGNTO - 1 + MaxExtra) : n >= fixed - MaxShort }

\* the first n bytes of b, b being extended with zero bytes when shorter
Resize(b, n) == [i \in 1..n |-> IF i <= Len(b) THEN b[i] ELSE 0]

\* a header as the tests write it: u32 length, u16 tag, u16 flags, two u32
WireHeader(n, t, f, id) ==
    NativeEndianWrite(4, n) \o NativeEndianWrite(2, t) \o NativeEndianWrite(2, f)
    \o NativeEndianWrite(4, id) \o NativeEndianWrite(4, id)

\* the payload types of the headers received from the wire: those above and
\* two without a static size
WirePayloadTypes == PayloadTypes \cup { << "Vec<u8>" >>, Hdr(<< "Vec<u8>" >>) }

\* the wire integers converted: every 8-bit one; of the 16-bit ones the
\* low range, the values around those NetfilterMsg binds, and the largest
WireInts(w) ==
    IF w = 1 THEN 0..(Pow256(1) - 1)
    ELSE (0..MaxWire16) \cup (1023..1026) \cup { Pow256(2) - 1 }

\* the codec values serialized on their own: integers, generated enums and
\* the error packet Nlmsgerr<Nlmsg>
CodecTypes ==
    { << t >> : t \in IntTypes \cup EnumNames } \cup { << "Nlmsgerr" >> }

ErrorCodes == { 0 - 22, 0, 0 - 1 }

\* every value of a generated enum: its named variants and
\* UnrecognizedVariant(r) for the wire integers r
EnumValues(name) ==
    { Variant(EnumTable(name)[k].var) : k \in 1..Len(EnumTable(name)) }
    \cup { UnrecognizedVariant(r) : r \in WireInts(EnumWidth(name)) }

CodecValues(ty) ==
    CASE ty[1] = "u8" -> { 0, 171, 255 }
      [] ty[1] = "u16" -> { 4660, 65535 }
      [] ty[1] = "u32" -> { 1, 2125315823 }
      [] ty[1] = "i32" -> ErrorCodes \cup { 2125315823 }
      [] ty[1] \in EnumNames -> EnumValues(ty[1])
      [] ty[1] = "Nlmsgerr" ->
            { [error |-> e,
               nlmsg |-> Nlmsghdr_new(NlmsgerrHdr, None, t, f, sq, None, NlEmpty)] :
                  e \in ErrorCodes, t \in TypeArgs, f \in FlagArgs, sq \in SeqArgs }

\* Nl::serialize / Nl::deserialize of a codec type
Nl_serialize(ty, v, m) ==
    IF ty[1] = "Nlmsgerr" THEN Nlmsgerr_serialize(v, m) ELSE serialize(ty, v, m)
Nl_deserialize(ty, m) ==
    IF ty[1] = "Nlmsgerr" THEN Nlmsgerr_deserialize(m) ELSE deserialize(ty, m)

\* the lengths of the buffers a caller hands to serialize for codec value v
CvBufLens(ty, v) ==
    { n \in 0..(asize(ty, v) + MaxExtra) : n >= size(ty, v) - MaxShort }

\* the slices received from the wire for a codec type: an integer of the
\* type's width, or an error code and a header, cut or extended with zeros
CvWire(ty) ==
    IF ty[1] = "Nlmsgerr"
    THEN { Resize(NativeEndianWrite(4, e) \o WireHeader(n, t, f, id), len) :
              e \in ErrorCodes, n \in { 16, 20 }, t \in WireTags, f \in WireFlags,
              id \in WireIds, len \in { 0, 3 } \cup ((20 - MaxShort)..(20 + MaxExtra)) }
    ELSE LET w == unwrap_or(type_size(ty), 0)
         IN  { Resize(NativeEndianWrite(w, x), len) :
                  x \in { 0, 1, 2, 255 }, len \in 0..(w + MaxExtra) }

---------------------------------------------------------------------------
(* The state machine: a caller builds a header, serializes it into a       *)
(* buffer and deserializes the bytes written; or deserializes bytes        *)
(* received from the wire; or converts a wire integer to a constant.       *)

SerInit == [buffer |-> << >>, pos |-> 0, i |-> 0, res |-> SerOk(<< >>, 0)]
WireNone == [n |-> 0, t |-> 0, f |-> 0, id |-> 0]
DeInit ==
    [src |-> "none", win |-> WireNone, pos |-> 0, i |-> 0,
     acc |-> DefaultVal(Hdr(<< "NlEmpty" >>)), res |-> DeErr("none", "")]
CstInit ==
    [op |-> "none", ty |-> "", wire |-> 0, e |-> UnrecognizedVariant(0),
     w |-> UnrecognizedConst(0), back |-> 0]

CvInit ==
    [src |-> "none", ty |-> << "u8" >>, v |-> 0, res |-> SerOk(<< >>, 0),
     out |-> DeErr("none", "")]

ArgsInit ==
    [nl_len |-> None, nl_type |-> UnrecognizedVariant(0), nl_flags |-> 0,
     nl_seq |-> None, nl_pid |-> None, nl_payload |-> NlEmpty]

Init ==
    /\ endian \in { "LE", "BE" }
    /\ pc = "start"
    /\ P = << "NlEmpty" >>
    /\ args = ArgsInit
    /\ nl = DefaultVal(Hdr(<< "NlEmpty" >>))
    /\ mem = << >>
    /\ ser = SerInit
    /\ de = DeInit
    /\ cst = CstInit
    /\ cv = CvInit

\* the caller builds a header with Nlmsghdr::new
New ==
    /\ pc = "start"
    /\ \E p \in PayloadTypes, nl_len \in LenArgs, nl_type \in TypeArgs,
          nl_flags \in FlagArgs, nl_seq \in SeqArgs, nl_pid \in PidArgs :
          \E nl_payload \in PayloadValues(p) :
             /\ P' = p
             /\ args' = [nl_len |-> nl_len, nl_type |-> nl_type,
                         nl_flags |-> nl_flags, nl_seq |-> nl_seq,
                         nl_pid |-> nl_pid, nl_payload |-> nl_payload]
             /\ nl' = Nlmsghdr_new(Hdr(p), nl_len, nl_type, nl_flags, nl_seq,
                                   nl_pid, nl_payload)
    /\ pc' = "built"
    /\ UNCHANGED <<endian, mem, ser, de, cst, cv>>

\* the caller hands a buffer of n bytes to nl.serialize
Serialize ==
    /\ pc = "built"
    /\ \E n \in BufLens(Hdr(P), nl), b \in FillBytes :
          /\ mem' = Fill(n, b)
          /\ ser' = [SerInit EXCEPT !.buffer = Fill(n, b), !.i = 1]
    /\ pc' = "ser"
    /\ UNCHANGED <<endian, P, args, nl, de, cst, cv>>

\* serialize!: one field is driven
SerField ==
    /\ pc = "ser"
    /\ LET r == drive_serialize(FieldTy(Hdr(P), ser.i), FieldVal(nl, ser.i),
                                ser.buffer, ser.pos)
       IN  IF r.ok
           THEN /\ ser' = [ser EXCEPT !.buffer = r.buf, !.pos = r.pos, !.i = @ + 1]
                /\ pc' = IF ser.i = NlmsghdrFields THEN "ser_pad" ELSE "ser"
           ELSE /\ ser' = [ser EXCEPT !.res = r]
                /\ pc' = "ser_err"
    /\ UNCHANGED <<endian, P, args, nl, mem, de, cst, cv>>

\* serialize!: the padding is driven
SerPad ==
    /\ pc = "ser_pad"
    /\ LET r == drive_serialize_PAD(Hdr(P), nl, ser.buffer, ser.pos)
       IN  IF r.ok
           THEN /\ ser' = [ser EXCEPT !.buffer = r.buf, !.pos = r.pos]
                /\ pc' = "ser_end"
           ELSE /\ ser' = [ser EXCEPT !.res = r]
                /\ pc' = "ser_err"
    /\ UNCHANGED <<endian, P, args, nl, mem, de, cst, cv>>

\* serialize!: the final check, and the call returns
SerEnd ==
    /\ pc = "ser_end"
    /\ LET r == drive_serialize_END(ser.buffer, ser.pos)
       IN  /\ ser' = [ser EXCEPT !.res = r]
           /\ pc' = IF r.ok THEN "ser_ok" ELSE "ser_err"
    /\ UNCHANGED <<endian, P, args, nl, mem, de, cst, cv>>

\* the caller deserializes the bytes a successful serialize returned
Deserialize ==
    /\ pc = "ser_ok"
    /\ mem' = ser.res.buf
    /\ de' = [DeInit EXCEPT !.src = "ser", !.i = 1, !.acc = DefaultVal(Hdr(P))]
    /\ pc' = "de"
    /\ UNCHANGED <<endian, P, args, nl, ser, cst, cv>>

\* the caller deserializes bytes received from the wire
DeserializeWire ==
    /\ pc = "start"
    /\ \E p \in WirePayloadTypes, n \in DeclLens, t \in WireTags, f \in WireFlags,
          id \in WireIds :
          \E len \in WireLens(p) :
             /\ P' = p
             /\ mem' = Resize(WireHeader(n, t, f, id), len)
             /\ de' = [DeInit EXCEPT !.src = "wire", !.i = 1,
                                     !.win = [n |-> n, t |-> t, f |-> f, id |-> id],
                                     !.acc = DefaultVal(Hdr(p))]
    /\ pc' = "de"
    /\ UNCHANGED <<endian, args, nl, ser, cst, cv>>

\* deserialize!: one field is driven
DeField ==
    /\ pc = "de"
    /\ LET r == drive_deserialize(FieldTy(Hdr(P), de.i), mem, de.pos)
       IN  IF r.ok
           THEN /\ de' = [de EXCEPT !.pos = r.pos, !.i = @ + 1,
                                    !.acc = SetField(@, de.i, r.val)]
                /\ pc' = IF de.i = NlmsghdrFields THEN "de_strip" ELSE "de"
           ELSE /\ de' = [de EXCEPT !.res = r]
                /\ pc' = "de_err"
    /\ UNCHANGED <<endian, P, args, nl, mem, ser, cst, cv>>

\* deserialize!: the padding is stripped
DeStrip ==
    /\ pc = "de_strip"
    /\ LET r == drive_deserialize_STRIP(mem, de.pos, strip_size(de.acc))
       IN  IF r.ok
           THEN /\ de' = [de EXCEPT !.pos = r.pos]
                /\ pc' = "de_end"
           ELSE /\ de' = [de EXCEPT !.res = r]
                /\ pc' = "de_err"
    /\ UNCHANGED <<endian, P, args, nl, mem, ser, cst, cv>>

\* deserialize!: the final check, and the call returns the header
DeEnd ==
    /\ pc = "de_end"
    /\ LET r == drive_deserialize_END(mem, de.pos)
       IN  IF r.ok
           THEN /\ de' = [de EXCEPT !.res = DeOk(de.acc, r.pos)]
                /\ pc' = "de_ok"
           ELSE /\ de' = [de EXCEPT !.res = r]
                /\ pc' = "de_err"
    /\ UNCHANGED <<endian, P, args, nl, mem, ser, cst, cv>>

\* the caller converts a wire integer to a generated enum and back
FromWire ==
    /\ pc = "start"
    /\ \E name \in EnumNames :
          \E i \in WireInts(EnumWidth(name)) :
             cst' = [CstInit EXCEPT !.op = "enum", !.ty = name, !.wire = i,
                        !.e = enum_from(name, i),
                        !.back = enum_into(name, enum_from(name, i))]
    /\ pc' = "const"
    /\ UNCHANGED <<endian, P, args, nl, mem, ser, de, cv>>

\* the caller converts a wire integer to a wrapper and back
WrapperFromWire ==
    /\ pc = "start"
    /\ \E w \in WrapperNames :
          \E i \in WireInts(1) :
             cst' = [CstInit EXCEPT !.op = "wrapper", !.ty = w, !.wire = i,
                        !.w = wrapper_from(w, i),
                        !.back = wrapper_into(w, wrapper_from(w, i))]
    /\ pc' = "const"
    /\ UNCHANGED <<endian, P, args, nl, mem, ser, de, cv>>

\* the caller serializes a codec value on its own into a buffer of n bytes
CvSerialize ==
    /\ pc = "start"
    /\ \E ty \in CodecTypes :
          \E v \in CodecValues(ty), b \in FillBytes :
             \E n \in CvBufLens(ty, v) :
                /\ mem' = Fill(n, b)
                /\ cv' = [CvInit EXCEPT !.src = "ser", !.ty = ty, !.v = v,
                              !.res = Nl_serialize(ty, v, Fill(n, b))]
    /\ pc' = "cv_ser"
    /\ UNCHANGED <<endian, P, args, nl, ser, de, cst>>

\* the caller deserializes the bytes a successful serialize returned
CvDeserialize ==
    /\ pc = "cv_ser"
    /\ cv.res.ok
    /\ mem' = cv.res.buf
    /\ cv' = [cv EXCEPT !.out = Nl_deserialize(cv.ty, cv.res.buf)]
    /\ pc' = "cv_de"
    /\ UNCHANGED <<endian, P, args, nl, ser, de, cst>>

\* the caller deserializes a codec type from a slice received from the wire
CvDeserializeWire ==
    /\ pc = "start"
    /\ \E ty \in CodecTypes :
          \E m \in CvWire(ty) :
             /\ mem' = m
             /\ cv' = [CvInit EXCEPT !.src = "wire", !.ty = ty,
                              !.out = Nl_deserialize(ty, m)]
    /\ pc' = "cv_de"
    /\ UNCHANGED <<endian, P, args, nl, ser, de, cst>>

Next ==
    \/ New
    \/ Serialize
    \/ SerField
    \/ SerPad
    \/ SerEnd
    \/ Deserialize
    \/ DeserializeWire
    \/ DeField
    \/ DeStrip
    \/ DeEnd
    \/ FromWire
    \/ WrapperFromWire
    \/ CvSerialize
    \/ CvDeserialize
    \/ CvDeserializeWire

Spec == Init /\ [][Next]_vars

---------------------------------------------------------------------------
(* The drivers taken step by step compute what the whole call computes.    *)

SerDone == pc \in { "ser_ok", "ser_err" }
DeDone == pc \in { "de_ok", "de_err" }

StepwiseSerialize ==
    SerDone => ser.res = Nlmsghdr_serialize(Hdr(P), nl, mem)

StepwiseDeserialize ==
    DeDone => de.res = Nlmsghdr_deserialize(Hdr(P), mem)

TypeOK ==
    /\ endian \in { "LE", "BE" }
    /\ pc \in { "start", "built", "ser", "ser_pad", "ser_end", "ser_ok",
                "ser_err", "de", "de_strip", "de_end", "de_ok", "de_err",
                "const", "cv_ser", "cv_de" }
    /\ P \in WirePayloadTypes
    /\ \A k \in 1..Len(mem) : mem[k] \in 0..255
    /\ \A k \in 1..Len(ser.buffer) : ser.buffer[k] \in 0..255
    /\ ser.res.ok \in BOOLEAN
    /\ de.res.ok \in BOOLEAN

---------------------------------------------------------------------------
(* The claims.                                                             *)

\* the wire integer of a type tag, from the table of the protocol
TagWire(e) ==
    CASE e.var = "UnrecognizedVariant" -> e.raw
      [] e.var = "Noop" -> 1
      [] e.var = "Error" -> 2
      [] e.var = "Done" -> 3
      [] e.var = "Overrun" -> 4

RECURSIVE RefBytes(_, _)
\* the wire layout of a value: its fields in order, each in native order
RefBytes(ty, v) ==
    CASE ty[1] = "u8" -> NativeEndianWrite(1, v)
      [] ty[1] = "u16" -> NativeEndianWrite(2, v)
      [] ty[1] = "u32" -> NativeEndianWrite(4, v)
      [] ty[1] = "NlEmpty" -> << >>
      [] ty[1] = "Nlmsghdr" ->
            NativeEndianWrite(4, v.nl_len) \o NativeEndianWrite(2, TagWire(v.nl_type))
            \o NativeEndianWrite(2, v.nl_flags) \o NativeEndianWrite(4, v.nl_seq)
            \o NativeEndianWrite(4, v.nl_pid) \o RefBytes(Tail(ty), v.nl_payload)

\* the static wire size of a payload type
PayloadWireLen(p) ==
    CASE p = << "NlEmpty" >> -> 0
      [] p = << "u8" >> -> 1
      [] p = << "u16" >> -> 2
      [] p = << "u32" >> -> 4
      [] p = Hdr(<< "NlEmpty" >>) -> 16
      [] p = Hdr(<< "u8" >>) -> 17

HeaderWireLen == 16

RoundUp4(n) == CHOOSE m \in n..(n + 3) : m % 4 = 0

\* C1 (as claimed): a header built by Nlmsghdr::new, with any nl_len
\* argument and any statically sized payload, serializes into a buffer of
\* aligned_size() bytes, and deserializing the bytes yields an equal header.
C1_RoundTrip ==
    /\ (SerDone /\ Len(mem) = RoundUp4(HeaderWireLen + PayloadWireLen(P)))
          => pc = "ser_ok"
    /\ (DeDone /\ de.src = "ser"
          /\ Len(mem) = RoundUp4(HeaderWireLen + PayloadWireLen(P)))
          => (pc = "de_ok" /\ de.res.val = nl)


\* C2: on every failure path of the header's serialization the buffer the
\* SerError carries is as long as the buffer the caller supplied.
C2_BufferConserved ==
    pc = "ser_err" => Len(ser.res.buf) = Len(mem)

\* a nested field's serialize failed with bytes split off on both sides
C2_Witness ==
    /\ pc = "ser_err"
    /\ ser.i = NlmsghdrFields
    /\ ser.pos > 0
    /\ ser.pos + PayloadWireLen(P) < Len(mem)
    /\ Len(ser.res.buf) = Len(mem)

\* the other failure paths: a field that does not fit, the padding that
\* does not fit, the final fill check
C2_FieldDoesNotFit ==
    pc = "ser_err" /\ ser.i <= NlmsghdrFields /\ Len(mem) < HeaderWireLen
C2_PadDoesNotFit ==
    pc = "ser_err" /\ ser.i > NlmsghdrFields /\ ser.res.kind = "UnexpectedEOB"
C2_NotFilled ==
    pc = "ser_err" /\ ser.res.kind = "BufferNotFilled"

\* the wire integers an enum binds to a named variant
BoundValues(name) == { EnumTable(name)[k].val : k \in 1..Len(EnumTable(name)) }
NamedVariants(name) ==
    { Variant(EnumTable(name)[k].var) : k \in 1..Len(EnumTable(name)) }

\* C3: converting a wire integer i to a generated enum never fails, a bound
\* i gives a named variant, an unbound i gives UnrecognizedVariant(i), and
\* converting the result back to the wire gives i.
C3_ConstTotality ==
    (pc = "const" /\ cst.op = "enum") =>
        /\ cst.back = cst.wire
        /\ cst.wire \in BoundValues(cst.ty) => cst.e \in NamedVariants(cst.ty)
        /\ cst.wire \notin BoundValues(cst.ty) => cst.e = UnrecognizedVariant(cst.wire)

\* 99 is bound by no variant of NfLogCfg and comes back as 99
C3_Witness ==
    /\ pc = "const" /\ cst.op = "enum" /\ cst.ty = "NfLogCfg"
    /\ cst.wire = 99 /\ cst.e = UnrecognizedVariant(99) /\ cst.back = 99

\* a bound value gives its named variant
C3_BoundWitness ==
    /\ pc = "const" /\ cst.op = "enum" /\ cst.ty = "NetfilterMsg"
    /\ cst.wire = 1025 /\ cst.e = Variant("LogConfig") /\ cst.back = 1025

\* the candidates of wrapper w that recognize wire integer v
Recognizing(w, v) ==
    { k \in 1..Len(WrapperCands(w)) : v \in BoundValues(WrapperCands(w)[k]) }

\* C4: a wrapper converts a wire integer to the case of the first candidate,
\* in declaration order, that recognizes it, and to UnrecognizedConst only
\* when no candidate does.
C4_WrapperPrecedence ==
    (pc = "const" /\ cst.op = "wrapper") =>
        LET rec == Recognizing(cst.ty, cst.wire)
        IN  IF rec = {} THEN cst.w = UnrecognizedConst(cst.wire)
            ELSE /\ cst.w.case = WrapperCands(cst.ty)[SetMin(rec)]
                 /\ cst.w.inner \in NamedVariants(cst.w.case)
                 /\ enum_into(cst.w.case, cst.w.inner) = cst.wire

\* 2 is bound by LogCmd and by LogCopyMode: the wrapper takes LogCmd's
C4_Witness ==
    /\ pc = "const" /\ cst.op = "wrapper" /\ cst.ty = "LogCmdCopyModeWrapper"
    /\ cst.wire = 2
    /\ Recognizing(cst.ty, cst.wire) = { 1, 2 }
    /\ cst.w = WrapperCase("LogCmd", Variant("Unbind"))

\* C5 (as claimed): after a successful serialize into aligned_size() bytes
\* the buffer holds nl_len, nl_type, nl_flags, nl_seq, nl_pid and the
\* payload bytes at their offsets; the header of the test gives the u32 16,
\* the u16 1 and zero bytes.
C5_WireLayout ==
    (pc = "ser_ok" /\ Len(mem) = RoundUp4(HeaderWireLen + PayloadWireLen(P))) =>
        /\ SubSeq(ser.res.buf, 1, HeaderWireLen + PayloadWireLen(P))
              = RefBytes(Hdr(P), nl)
        /\ (/\ P = << "NlEmpty" >> /\ ~args.nl_len.some
            /\ nl.nl_type = Variant("Noop") /\ nl.nl_flags = 0
            /\ nl.nl_seq = 0 /\ nl.nl_pid = 0)
              => ser.res.buf = NativeEndianWrite(4, 16) \o NativeEndianWrite(2, 1)
                                  \o Zeros(10)

\* the type tag a wire integer stands for
TagOf(t) ==
    CASE t = 1 -> Variant("Noop")
      [] t = 2 -> Variant("Error")
      [] t = 3 -> Variant("Done")
      [] t = 4 -> Variant("Overrun")
      [] OTHER -> UnrecognizedVariant(t)

\* a 16-byte buffer holding 16, a tag, flags and eight zero bytes
C6_Case ==
    /\ DeDone /\ de.src = "wire" /\ P = << "NlEmpty" >>
    /\ Len(mem) = 16 /\ de.win.n = 16 /\ de.win.id = 0

\* C6: deserializing 16 bytes that hold the length 16, a tag t, flags f and
\* zeros gives the header new(None, t, f, None, None, NlEmpty).
C6_DeserializeHeader ==
    C6_Case =>
        /\ pc = "de_ok"
        /\ de.res.val = [nl_len |-> 16, nl_type |-> TagOf(de.win.t),
                         nl_flags |-> de.win.f, nl_seq |-> 0, nl_pid |-> 0,
                         nl_payload |-> NlEmpty]
        /\ de.res.val = Nlmsghdr_new(Hdr(P), None, TagOf(de.win.t), de.win.f,
                                     None, None, NlEmpty)

\* the buffer of test_nlmsghdr_deserialize: Noop with the Ack flag
C6_Witness ==
    C6_Case /\ pc = "de_ok" /\ de.win.t = 1 /\ de.win.f = 4

\* C7: into a buffer shorter than aligned_size() serialize fails with
\* UnexpectedEOB, and the error carries the buffer.
C7_TooSmall ==
    (SerDone /\ Len(mem) < RoundUp4(HeaderWireLen + PayloadWireLen(P))) =>
        /\ pc = "ser_err"
        /\ ser.res.kind = "UnexpectedEOB"
        /\ Len(ser.res.buf) = Len(mem)

\* every field fits and the padding does not
C7_Witness ==
    /\ pc = "ser_err" /\ ser.res.kind = "UnexpectedEOB"
    /\ ser.i > NlmsghdrFields
    /\ Len(mem) >= HeaderWireLen + PayloadWireLen(P)
    /\ Len(mem) < RoundUp4(HeaderWireLen + PayloadWireLen(P))

\* C8 (as claimed): a declared length smaller than the sum of the sizes of
\* the parsed fields makes deserialize fail with UnexpectedEOB.
C8_DeclaredTooShort ==
    (DeDone /\ de.i > NlmsghdrFields
        /\ de.acc.nl_len < HeaderWireLen + PayloadWireLen(P)) =>
        (pc = "de_err" /\ de.res.kind = "UnexpectedEOB")

\* C9 (as claimed): a buffer of fewer than align(nl_len) bytes makes
\* deserialize fail with UnexpectedEOB.
C9_BufferShorterThanDeclared ==
    (DeDone /\ de.i > 1 /\ Len(mem) < RoundUp4(de.acc.nl_len)) =>
        (pc = "de_err" /\ de.res.kind = "UnexpectedEOB")

\* a header has been built by Nlmsghdr::new
Built == pc \notin { "start", "const", "cv_ser", "cv_de" } /\ de.src # "wire"

\* C10: Nlmsghdr::new stores size() as the declared length when nl_len is
\* None and n when it is Some(n), 0 for a sequence number or pid of None,
\* and the type, flags and payload as passed.
C10_HeaderConstruction ==
    Built =>
        /\ nl.nl_len = IF args.nl_len.some THEN args.nl_len.v
                       ELSE HeaderWireLen + PayloadWireLen(P)
        /\ nl.nl_seq = IF args.nl_seq.some THEN args.nl_seq.v ELSE 0
        /\ nl.nl_pid = IF args.nl_pid.some THEN args.nl_pid.v ELSE 0
        /\ nl.nl_type = args.nl_type
        /\ nl.nl_flags = args.nl_flags
        /\ nl.nl_payload = args.nl_payload

\* a header over a one-byte payload with no override: 17, not 20
C10_Witness ==
    /\ pc = "built" /\ P = << "u8" >> /\ ~args.nl_len.some
    /\ nl.nl_len = 17 /\ ~args.nl_seq.some /\ nl.nl_seq = 0

\* an override is stored unchanged
C10_OverrideWitness ==
    /\ pc = "built" /\ P = << "u8" >> /\ args.nl_len = Some(12) /\ nl.nl_len = 12

\* an enum value serialized on its own into size() bytes, and read back
C11_Case ==
    /\ pc = "cv_de" /\ cv.src = "ser" /\ cv.ty[1] \in EnumNames

\* C11 (as claimed): every value e of a generated enum, UnrecognizedVariant(r)
\* for a bound r included, serializes into size() bytes, and deserializing
\* the bytes written yields a value equal to e.
C11_EnumRoundTrip ==
    /\ (pc = "cv_ser" /\ cv.ty[1] \in EnumNames
           /\ Len(mem) = EnumWidth(cv.ty[1])) => cv.res.ok
    /\ C11_Case => (cv.out.ok /\ cv.out.val = cv.v)

\* C11 (amended): a named variant and UnrecognizedVariant(r) for an unbound r
\* serialize into size() bytes and deserialize to an equal value;
\* UnrecognizedVariant(r) for a bound r deserializes to the named variant
\* bound to r; the bytes written are the wire integer of the value.
C11_EnumRoundTripCanonical ==
    /\ (pc = "cv_ser" /\ cv.ty[1] \in EnumNames
           /\ Len(mem) = EnumWidth(cv.ty[1])) => cv.res.ok
    /\ C11_Case =>
          LET name == cv.ty[1]
              tbl == EnumTable(name)
          IN  /\ cv.out.ok
              /\ IF cv.v.var = "UnrecognizedVariant" /\ cv.v.raw \in BoundValues(name)
                 THEN /\ cv.out.val \in NamedVariants(name)
                      /\ \E k \in 1..Len(tbl) :
                            tbl[k].val = cv.v.raw /\ cv.out.val = Variant(tbl[k].var)
                      /\ mem = NativeEndianWrite(EnumWidth(name), cv.v.raw)
                 ELSE cv.out.val = cv.v

\* a named variant bound to a two-byte value comes back
C11_Witness ==
    /\ C11_Case /\ cv.ty = << "NetfilterMsg" >> /\ cv.v = Variant("LogConfig")
    /\ mem = NativeEndianWrite(2, 1025)
    /\ cv.out.ok /\ cv.out.val = Variant("LogConfig")

\* UnrecognizedVariant(1) of LogCmd comes back as Bind
C11_BoundRawWitness ==
    /\ C11_Case /\ cv.ty = << "LogCmd" >> /\ cv.v = UnrecognizedVariant(1)
    /\ cv.out.ok /\ cv.out.val = Variant("Bind")

\* UnrecognizedVariant(99) of NfLogCfg comes back unchanged
C11_UnboundRawWitness ==
    /\ C11_Case /\ cv.ty = << "NfLogCfg" >> /\ cv.v = UnrecognizedVariant(99)
    /\ cv.out.ok /\ cv.out.val = UnrecognizedVariant(99)

\* the wire size of an error packet: the error code and an empty header
NlmsgerrWireLen == 20

\* C12 (as claimed): an Nlmsgerr value serializes into a buffer of
\* aligned_size() bytes, and Nlmsgerr::deserialize on those bytes succeeds
\* with the error code and the header of the value serialized.
C12_ErrorPacketRoundTrip ==
    /\ (pc = "cv_ser" /\ cv.ty = << "Nlmsgerr" >> /\ Len(mem) = NlmsgerrWireLen)
          => cv.res.ok
    /\ (pc = "cv_de" /\ cv.src = "ser" /\ cv.ty = << "Nlmsgerr" >>)
          => (/\ cv.out.ok
              /\ cv.out.val.error = cv.v.error
              /\ cv.out.val.nlmsg = cv.v.nlmsg)

\* the serialization half: the bytes written are the error code and the
\* header's fields
C12_SerializedLayout ==
    (pc = "cv_ser" /\ cv.ty = << "Nlmsgerr" >> /\ Len(mem) = NlmsgerrWireLen)
        => /\ cv.res.ok
           /\ cv.res.buf = NativeEndianWrite(4, cv.v.error)
                               \o RefBytes(NlmsgerrHdr, cv.v.nlmsg)

\* no slice of one byte or more deserializes as an error packet
C12_DeserializeNeverSucceeds ==
    (pc = "cv_de" /\ cv.ty = << "Nlmsgerr" >> /\ Len(mem) > 0) => ~cv.out.ok

\* the padding step of serialize! has just acted on a header that needs
\* padding
C13_Case ==
    /\ pc = "ser_pad" /\ pc' = "ser_end"
    /\ RoundUp4(HeaderWireLen + PayloadWireLen(P)) > HeaderWireLen + PayloadWireLen(P)

\* C13 (as claimed): the padding step of a successful padded serialization
\* zeroes exactly the bytes [size(), aligned_size()), leaves the bytes
\* [0, size()) written by the fields as they were, and leaves the cursor at
\* aligned_size().
C13_PaddingRegion ==
    [][C13_Case =>
          LET sz == HeaderWireLen + PayloadWireLen(P)
              asz == RoundUp4(sz)
          IN  /\ Len(ser'.buffer) = Len(ser.buffer)
              /\ SubSeq(ser'.buffer, 1, sz) = SubSeq(ser.buffer, 1, sz)
              /\ \A k \in (sz + 1)..asz : ser'.buffer[k] = 0
              /\ SubSeq(ser'.buffer, asz + 1, Len(ser.buffer))
                    = SubSeq(ser.buffer, asz + 1, Len(ser.buffer))
              /\ ser'.pos = asz]_vars

\* what the padding step does: its zeros land on the bytes [p, 2p) of the
\* buffer, p being the padding length, and every other byte is left as it was
C13_PaddingLandsAtFront ==
    [][C13_Case =>
          LET sz == HeaderWireLen + PayloadWireLen(P)
              p == RoundUp4(sz) - sz
          IN  /\ Len(ser'.buffer) = Len(ser.buffer)
              /\ \A k \in 1..Len(ser.buffer) :
                    ser'.buffer[k] = IF k \in (p + 1)..(2 * p) THEN 0
                                     ELSE ser.buffer[k]
              /\ ser'.pos = sz + p]_vars

\* a header whose payload type has no static size has been deserialized
C14_Case ==
    /\ DeDone /\ de.src = "wire"
    /\ P \in { << "Vec<u8>" >>, Hdr(<< "Vec<u8>" >>) }

\* C14: deserializing a header whose payload type has no static size never
\* succeeds; once the five fields before the payload have been parsed it
\* returns DeError::Msg with the message of deserialize_type_size!, and a
\* buffer too short for those fields gives UnexpectedEOB.
C14_NoStaticSize ==
    C14_Case =>
        /\ pc = "de_err"
        /\ Len(mem) >= HeaderWireLen =>
              /\ de.res.kind = "Msg"
              /\ de.res.msg = "Type has no static size associated with it"
              /\ de.i = NlmsghdrFields /\ de.pos = HeaderWireLen
        /\ Len(mem) < HeaderWireLen => de.res.kind = "UnexpectedEOB"

\* the payload is itself a header over a byte vector: five fields parsed,
\* then the message
C14_Witness ==
    /\ C14_Case /\ P = Hdr(<< "Vec<u8>" >>) /\ Len(mem) = 16 /\ de.win.n = 16
    /\ pc = "de_err" /\ de.res.kind = "Msg" /\ de.pos = 16

\* C15 (as claimed): into a buffer longer than aligned_size() the header's
\* serialize fails with BufferNotFilled carrying the buffer, after all the
\* fields and the padding were processed; an integer serialized into a
\* buffer longer than its size fails with BufferNotFilled likewise.
C15_TooLarge ==
    /\ (SerDone /\ Len(mem) > RoundUp4(HeaderWireLen + PayloadWireLen(P))) =>
          /\ pc = "ser_err"
          /\ ser.res.kind = "BufferNotFilled"
          /\ Len(ser.res.buf) = Len(mem)
          /\ ser.i > NlmsghdrFields
    /\ (pc = "cv_ser" /\ cv.ty[1] \in IntTypes /\ Len(mem) > IntWidth(cv.ty[1])) =>
          /\ ~cv.res.ok
          /\ cv.res.kind = "BufferNotFilled"
          /\ cv.res.buf = mem

\* the same for the headers whose payload is not itself a header of
\* unaligned size
C15_TooLargeFlat ==
    /\ (SerDone /\ Len(mem) > RoundUp4(HeaderWireLen + PayloadWireLen(P))
           /\ P # Hdr(<< "u8" >>)) =>
          /\ pc = "ser_err"
          /\ ser.res.kind = "BufferNotFilled"
          /\ Len(ser.res.buf) = Len(mem)
          /\ ser.i > NlmsghdrFields
    /\ (pc = "cv_ser" /\ cv.ty[1] \in IntTypes /\ Len(mem) > IntWidth(cv.ty[1])) =>
          /\ ~cv.res.ok
          /\ cv.res.kind = "BufferNotFilled"
          /\ cv.res.buf = mem

\* the wire size of field i of a header over payload p, and the offset of
\* field i: the sum of the sizes of the fields before it
FieldWireLen(p, i) ==
    CASE i = 1 -> 4 [] i = 2 -> 2 [] i = 3 -> 2 [] i = 4 -> 4 [] i = 5 -> 4
      [] i = 6 -> PayloadWireLen(p)
FieldOffset(i) ==
    CASE i = 1 -> 0 [] i = 2 -> 4 [] i = 3 -> 6 [] i = 4 -> 8 [] i = 5 -> 12
      [] i = 6 -> 16

\* C16: a field step of serialize! keeps the whole region in its original
\* order.  On success the cursor is the sum of the sizes of the fields
\* processed so far and only the bytes [cursor, cursor + size) may have
\* changed.  On error the buffer attached is as long as the region, its
\* prefix and suffix are the original ones, its middle is the buffer the
\* field's error carried, and the variant and message are the field's; a
\* field that does not fit returns UnexpectedEOB with the region untouched.
C16_DriverInvariant ==
    [][pc = "ser" =>
          LET i == ser.i
              off == FieldOffset(i)
              sz == FieldWireLen(P, i)
              len == Len(ser.buffer)
          IN  /\ ser.pos = off
              /\ IF pc' = "ser_err"
                 THEN /\ Len(ser'.res.buf) = len
                      /\ IF off + sz > len
                         THEN /\ ser'.res.kind = "UnexpectedEOB"
                              /\ ser'.res.buf = ser.buffer
                         ELSE LET r == serialize(FieldTy(Hdr(P), i), FieldVal(nl, i),
                                                 SubSeq(ser.buffer, off + 1, off + sz))
                              IN  /\ ~r.ok
                                  /\ ser'.res.kind = r.kind
                                  /\ ser'.res.msg = r.msg
                                  /\ SubSeq(ser'.res.buf, 1, off)
                                        = SubSeq(ser.buffer, 1, off)
                                  /\ SubSeq(ser'.res.buf, off + 1, off + sz) = r.buf
                                  /\ SubSeq(ser'.res.buf, off + sz + 1, len)
                                        = SubSeq(ser.buffer, off + sz + 1, len)
                 ELSE /\ Len(ser'.buffer) = len
                      /\ ser'.pos = off + sz
                      /\ ser'.i = i + 1
                      /\ SubSeq(ser'.buffer, 1, off) = SubSeq(ser.buffer, 1, off)
                      /\ SubSeq(ser'.buffer, off + sz + 1, len)
                            = SubSeq(ser.buffer, off + sz + 1, len)]_vars

\* two fields written into a buffer of 0xff bytes: the cursor is at 6, the
\* tag is in place and everything after it is untouched
C16_Witness ==
    /\ pc = "ser" /\ ser.i = 3 /\ ser.pos = 6
    /\ Len(mem) >= 16 /\ mem[1] = 255
    /\ nl.nl_type = UnrecognizedVariant(258)
    /\ SubSeq(ser.buffer, 5, 6) = NativeEndianWrite(2, 258)
    /\ SubSeq(ser.buffer, 7, Len(mem)) = SubSeq(mem, 7, Len(mem))

\* a payload header failed after writing its own fields: the error carries
\* the region with the sixteen outer bytes in front and the payload's bytes
\* behind them
C16_ErrorWitness ==
    /\ pc = "ser_err" /\ ser.i = NlmsghdrFields /\ P = Hdr(<< "u8" >>)
    /\ ser.res.kind = "UnexpectedEOB"
    /\ Len(mem) >= 33 /\ mem[1] = 255
    /\ SubSeq(ser.res.buf, 1, 16) = SubSeq(ser.buffer, 1, 16)
    /\ ser.res.buf[33] = 171

\* every field of a received header was parsed, and bytes remain after the
\* fields and the padding the declared length asks for
C17_Case ==
    /\ DeDone /\ de.src = "wire" /\ de.i > NlmsghdrFields
    /\ Len(mem) > HeaderWireLen + PayloadWireLen(P)
                     + (RoundUp4(de.acc.nl_len) - de.acc.nl_len)

\* an integer has been deserialized from a slice received from the wire
C17_IntCase ==
    /\ pc = "cv_de" /\ cv.src = "wire" /\ cv.ty[1] \in { "u8", "u16", "u32", "i32" }

\* C17: a buffer longer than the parsed fields plus the padding
\* align(nl_len) - nl_len makes Nlmsghdr::deserialize fail with
\* BufferNotParsed; an integer deserialized from a slice longer than its
\* size fails with BufferNotParsed, from a shorter one with UnexpectedEOB,
\* and from one of its size it succeeds.
C17_TrailingBytes ==
    /\ C17_Case => (pc = "de_err" /\ de.res.kind = "BufferNotParsed")
    /\ C17_IntCase =>
          LET w == IF cv.ty[1] = "u8" THEN 1 ELSE IF cv.ty[1] = "u16" THEN 2 ELSE 4
          IN  /\ Len(mem) > w => (~cv.out.ok /\ cv.out.kind = "BufferNotParsed")
              /\ Len(mem) < w => (~cv.out.ok /\ cv.out.kind = "UnexpectedEOB")
              /\ Len(mem) = w => cv.out.ok

\* a header declaring 16 bytes received in a buffer of 17
C17_Witness ==
    /\ C17_Case /\ P = << "NlEmpty" >> /\ de.win.n = 16 /\ Len(mem) = 17
    /\ pc = "de_err" /\ de.res.kind = "BufferNotParsed" /\ de.pos = 16

\* a u16 from three bytes, and from one
C17_IntLongWitness ==
    /\ C17_IntCase /\ cv.ty = << "u16" >> /\ Len(mem) = 3
    /\ cv.out.kind = "BufferNotParsed"
C17_IntShortWitness ==
    /\ C17_IntCase /\ cv.ty = << "u16" >> /\ Len(mem) = 1
    /\ cv.out.kind = "UnexpectedEOB"

===========================================================================
